---- MODULE Spec2Model ----
(***************************************************************************)
(* Model of src/App.tsx: the rule engine getInstructor and the grid        *)
(* builder scheduleGrid of the monthly pilates schedule, plus the table    *)
(* body render that consumes the grid.                                     *)
(*                                                                         *)
(* The grid builder is modelled statement by statement (one action per     *)
(* loop step), so that properties of the intermediate states can be        *)
(* stated.  The rule engine is additionally exercised on its own, on       *)
(* arguments drawn from a bounded range that includes out-of-range days    *)
(* and hours (RuleSpec).                                                   *)
(*                                                                         *)
(* TLA+ strings are ASCII: the holiday label of the source (the Japanese   *)
(* word for "day off", romanised "yasumi") is written "yasumi" here.       *)
(***************************************************************************)
EXTENDS Integers, Sequences, FiniteSets, TLC

VARIABLES
    grid,        \* scheduleGrid's local `grid`: [h_idx -> [d_idx -> GridCell]]
    pc,          \* position of the grid builder in its code
    day,         \* loop variable of the day loop (line 76)
    h_idx,       \* loop variable of the hour loops (lines 68, 82, 89)
    next_h_idx,  \* loop variable of the look-ahead loop (line 100)
    instructor,  \* local `instructor` (line 93)
    span,        \* local `span` (line 99)
    calls,       \* history: the (day, hour) pairs getInstructor was called with
    qday,        \* rule-engine probe: the day argument
    qhour,       \* rule-engine probe: the hour argument
    qpc,         \* rule-engine probe: "idle", "ready" or "returned"
    qout         \* rule-engine probe: outcome of the call

vars == <<grid, pc, day, h_idx, next_h_idx, instructor, span, calls,
          qday, qhour, qpc, qout>>

builderVars == <<grid, pc, day, h_idx, next_h_idx, instructor, span, calls>>
probeVars == <<qday, qhour, qpc, qout>>

-----------------------------------------------------------------------------
(* Calendar constants (calendarInfo, lines 6-17) *)

YEAR == 2025

MONTH == 10

IsLeapYear(y) == (y % 4 = 0 /\ y % 100 # 0) \/ y % 400 = 0

\* new Date(year, month + 1, 0).getDate(): the last day of 0-indexed `month`
LastDayOfMonth(y, m) ==
    IF m = 1 THEN (IF IsLeapYear(y) THEN 29 ELSE 28)
    ELSE IF m \in {3, 5, 8, 10} THEN 30
    ELSE 31

daysInMonth == LastDayOfMonth(YEAR, MONTH)

hours == <<8, 9, 10, 11, 12, 13, 14, 15, 16, 17, 18, 19, 20>>

hoursLength == Len(hours)

\* hours[h_idx] of the source (0-indexed)
hourAt(i) == hours[i + 1]

holidays == {5, 6, 10, 25}

\* null
NONE == "none"

HolidayLabel == "yasumi"

-----------------------------------------------------------------------------
(* Rule engine: getInstructor (lines 22-61), the if-chain as written *)

getInstructor_DefaultsFirst(d, hour) ==
    IF (d = 9 \/ d = 16 \/ d = 29) /\ (hour >= 8 /\ hour <= 9) THEN "Sosa"
    ELSE IF d = 13 THEN (IF hour >= 10 /\ hour <= 20 THEN "Gota" ELSE NONE)
    ELSE IF d = 20 THEN (IF hour >= 11 /\ hour <= 13 THEN "Emi" ELSE NONE)
    ELSE IF hour >= 17 /\ hour <= 20 THEN "Gota"
    ELSE IF hour >= 10 /\ hour <= 16 THEN "Kayo"
    ELSE IF (d = 17 \/ d = 28) /\ (hour >= 10 /\ hour <= 16) THEN "Gota"
    ELSE IF (d = 3 \/ d = 24) /\ (hour >= 11 /\ hour <= 13) THEN "Emi"
    ELSE NONE

getInstructor(d, hour) ==
    IF (d = 9 \/ d = 16 \/ d = 29) /\ (hour >= 8 /\ hour <= 9) THEN "Sosa"
    ELSE IF d = 13 THEN (IF hour >= 10 /\ hour <= 20 THEN "Gota" ELSE NONE)
    ELSE IF d = 20 THEN (IF hour >= 11 /\ hour <= 13 THEN "Emi" ELSE NONE)
    ELSE IF (d = 17 \/ d = 28) /\ (hour >= 10 /\ hour <= 16) THEN "Gota"
    ELSE IF (d = 3 \/ d = 24) /\ (hour >= 11 /\ hour <= 13) THEN "Emi"
    ELSE IF hour >= 17 /\ hour <= 20 THEN "Gota"
    ELSE IF hour >= 10 /\ hour <= 16 THEN "Kayo"
    ELSE NONE

\* The outcome of a call of getInstructor: the function has no throw
\* statement and no argument check, so every call returns.
CallGetInstructor(d, hour) == [raised |-> FALSE, value |-> getInstructor(d, hour)]

-----------------------------------------------------------------------------
(* Grid builder: scheduleGrid (lines 64-112) *)

\* line 71
EmptyCell == [instructor |-> NONE, rowspan |-> 1, hidden |-> FALSE]

\* line 81
HolidayCell_ShortSpan ==
    [instructor |-> HolidayLabel, rowspan |-> hoursLength - 1, hidden |-> FALSE]

HolidayCell ==
    [instructor |-> HolidayLabel, rowspan |-> hoursLength, hidden |-> FALSE]

\* line 80: holidays.includes(day)
IsHoliday_ByIndex(d) == (d - 1) \in holidays

IsHoliday(d) == d \in holidays

\* line 90: if (grid[h_idx][d_idx].hidden) continue
SkipCell_Never(cell) == FALSE

SkipCell(cell) == cell.hidden

\* line 96: if (!instructor) continue
NoInstructor_Never(ins) == FALSE

NoInstructor(ins) == ins = NONE

\* line 99: let span = 1
InitialSpan_Zero == 1 - 1

InitialSpan == 1

\* line 101: getInstructor(day, hours[next_h_idx]) === instructor
SameInstructor_AnyAssigned(d, i, ins) == getInstructor(d, hourAt(i)) # NONE

SameInstructor(d, i, ins) == getInstructor(d, hourAt(i)) = ins

\* lines 83, 102: grid[..][d_idx].hidden = true
MarkHidden_Forgotten(cell) == cell

MarkHidden(cell) == [cell EXCEPT !.hidden = TRUE]

d_idx == day - 1

BuilderInit ==
    /\ grid = <<>>
    /\ pc = "init"
    /\ day = 1
    /\ h_idx = 0
    /\ next_h_idx = 0
    /\ instructor = NONE
    /\ span = 0
    /\ calls = {}

\* lines 68-73, one iteration of the outer loop: grid[h_idx] = [] and its cells
InitRow ==
    /\ pc = "init"
    /\ h_idx < hoursLength
    /\ grid' = [h \in 0..h_idx |->
                  IF h = h_idx THEN [d \in 0..(daysInMonth - 1) |-> EmptyCell]
                  ELSE grid[h]]
    /\ h_idx' = h_idx + 1
    /\ UNCHANGED <<pc, day, next_h_idx, instructor, span, calls, probeVars>>

\* line 68 exit, line 76 entry
InitDone ==
    /\ pc = "init"
    /\ h_idx >= hoursLength
    /\ pc' = "day"
    /\ day' = 1
    /\ UNCHANGED <<grid, h_idx, next_h_idx, instructor, span, calls, probeVars>>

\* lines 80-82: the holiday cell at hour-index 0
HolidayHead ==
    /\ pc = "day"
    /\ day <= daysInMonth
    /\ IsHoliday(day)
    /\ grid' = [grid EXCEPT ![0][d_idx] = HolidayCell]
    /\ h_idx' = 1
    /\ pc' = "holiday"
    /\ UNCHANGED <<day, next_h_idx, instructor, span, calls, probeVars>>

\* lines 82-84, one iteration
HolidayHide ==
    /\ pc = "holiday"
    /\ h_idx < hoursLength
    /\ grid' = [grid EXCEPT ![h_idx][d_idx] = MarkHidden(@)]
    /\ h_idx' = h_idx + 1
    /\ UNCHANGED <<pc, day, next_h_idx, instructor, span, calls, probeVars>>

\* line 85: continue
HolidayDone ==
    /\ pc = "holiday"
    /\ h_idx >= hoursLength
    /\ day' = day + 1
    /\ pc' = "day"
    /\ UNCHANGED <<grid, h_idx, next_h_idx, instructor, span, calls, probeVars>>

\* line 89 entry on a non-holiday day
StartDay ==
    /\ pc = "day"
    /\ day <= daysInMonth
    /\ ~IsHoliday(day)
    /\ h_idx' = 0
    /\ pc' = "hour"
    /\ UNCHANGED <<grid, day, next_h_idx, instructor, span, calls, probeVars>>

\* line 90
SkipHiddenCell ==
    /\ pc = "hour"
    /\ h_idx < hoursLength
    /\ SkipCell(grid[h_idx][d_idx])
    /\ h_idx' = h_idx + 1
    /\ UNCHANGED <<grid, pc, day, next_h_idx, instructor, span, calls, probeVars>>

\* lines 92-96, the result is null
AssignNone ==
    /\ pc = "hour"
    /\ h_idx < hoursLength
    /\ ~SkipCell(grid[h_idx][d_idx])
    /\ LET r == CallGetInstructor(day, hourAt(h_idx)).value IN
         /\ NoInstructor(r)
         /\ instructor' = r
         /\ grid' = [grid EXCEPT ![h_idx][d_idx].instructor = r]
    /\ calls' = calls \cup {<<day, hourAt(h_idx)>>}
    /\ h_idx' = h_idx + 1
    /\ UNCHANGED <<pc, day, next_h_idx, span, probeVars>>

\* lines 92-100, the result is an instructor: start the look-ahead
AssignOwner ==
    /\ pc = "hour"
    /\ h_idx < hoursLength
    /\ ~SkipCell(grid[h_idx][d_idx])
    /\ LET r == CallGetInstructor(day, hourAt(h_idx)).value IN
         /\ ~NoInstructor(r)
         /\ instructor' = r
         /\ grid' = [grid EXCEPT ![h_idx][d_idx].instructor = r]
    /\ calls' = calls \cup {<<day, hourAt(h_idx)>>}
    /\ span' = InitialSpan
    /\ next_h_idx' = h_idx + 1
    /\ pc' = "scan"
    /\ UNCHANGED <<day, h_idx, probeVars>>

\* lines 100-103, one iteration that merges
ScanMerge ==
    /\ pc = "scan"
    /\ next_h_idx < hoursLength
    /\ SameInstructor(day, next_h_idx, instructor)
    /\ grid' = [grid EXCEPT ![next_h_idx][d_idx] = MarkHidden(@)]
    /\ span' = span + 1
    /\ next_h_idx' = next_h_idx + 1
    /\ calls' = calls \cup {<<day, hourAt(next_h_idx)>>}
    /\ UNCHANGED <<pc, day, h_idx, instructor, probeVars>>

\* lines 104-108: break on a different result, then store the span
ScanBreak ==
    /\ pc = "scan"
    /\ next_h_idx < hoursLength
    /\ ~SameInstructor(day, next_h_idx, instructor)
    /\ grid' = [grid EXCEPT ![h_idx][d_idx].rowspan = span]
    /\ calls' = calls \cup {<<day, hourAt(next_h_idx)>>}
    /\ h_idx' = h_idx + 1
    /\ pc' = "hour"
    /\ UNCHANGED <<day, next_h_idx, instructor, span, probeVars>>

\* lines 100, 108: the look-ahead reached the end of the hour list
ScanEnd ==
    /\ pc = "scan"
    /\ next_h_idx >= hoursLength
    /\ grid' = [grid EXCEPT ![h_idx][d_idx].rowspan = span]
    /\ h_idx' = h_idx + 1
    /\ pc' = "hour"
    /\ UNCHANGED <<day, next_h_idx, instructor, span, calls, probeVars>>

\* line 89 exit, line 76 increment
EndDay ==
    /\ pc = "hour"
    /\ h_idx >= hoursLength
    /\ day' = day + 1
    /\ pc' = "day"
    /\ UNCHANGED <<grid, h_idx, next_h_idx, instructor, span, calls, probeVars>>

\* line 76 exit, line 111: return grid
Finish ==
    /\ pc = "day"
    /\ day > daysInMonth
    /\ pc' = "done"
    /\ UNCHANGED <<grid, day, h_idx, next_h_idx, instructor, span, calls, probeVars>>

\* the probe's outcome before the call has returned
NoOutcome == [raised |-> FALSE, value |-> NONE]

ProbeIdle == qday = 1 /\ qhour = hourAt(0) /\ qpc = "idle" /\ qout = NoOutcome

Init == BuilderInit /\ ProbeIdle

Next ==
    \/ InitRow
    \/ InitDone
    \/ HolidayHead
    \/ HolidayHide
    \/ HolidayDone
    \/ StartDay
    \/ SkipHiddenCell
    \/ AssignNone
    \/ AssignOwner
    \/ ScanMerge
    \/ ScanBreak
    \/ ScanEnd
    \/ EndDay
    \/ Finish

Spec == Init /\ [][Next]_vars

-----------------------------------------------------------------------------
(* The rule engine on its own: one call of getInstructor(qday, qhour), the  *)
(* arguments drawn from ranges that include out-of-range days and hours.   *)

MaxProbeDay == 32

MaxProbeHour == 23

RuleInit ==
    /\ BuilderInit
    /\ qday \in 0..MaxProbeDay
    /\ qhour \in 0..MaxProbeHour
    /\ qpc = "ready"
    /\ qout = NoOutcome

\* lines 22-61: the call and its return
Probe ==
    /\ qpc = "ready"
    /\ qout' = CallGetInstructor(qday, qhour)
    /\ qpc' = "returned"
    /\ UNCHANGED <<qday, qhour, builderVars>>

RuleNext == Probe

RuleSpec == RuleInit /\ [][RuleNext]_vars

-----------------------------------------------------------------------------
(* Table body render (lines 166-216): the td elements emitted for one day  *)
(* column: hidden cells are skipped, the others carry rowSpan and text.    *)

renderColumn(d0) ==
    { [row |-> h, rowSpan |-> grid[h][d0].rowspan, text |-> grid[h][d0].instructor] :
        h \in {i \in 0..(hoursLength - 1) : ~grid[i][d0].hidden} }

-----------------------------------------------------------------------------
(* Vocabulary of the properties *)

HourIdx == 0..(hoursLength - 1)

DayIdx == 0..(daysInMonth - 1)

Days == 1..daysInMonth

ValidDay(d) == d \in Days

ValidHour(hour) == \E i \in 1..Len(hours) : hours[i] = hour

\* the result the rule engine gives for day d at hour-index i
Assigned(d, i) == getInstructor(d, hourAt(i))

\* The ordered rule list of the specification, rule by rule
RuleMatches(i, d, hour) ==
    CASE i = 1 -> d \in {9, 16, 29} /\ hour \in 8..9
      [] i = 2 -> d = 13
      [] i = 3 -> d = 20
      [] i = 4 -> d \in {17, 28} /\ hour \in 10..16
      [] i = 5 -> d \in {3, 24} /\ hour \in 11..13
      [] i = 6 -> hour \in 17..20
      [] i = 7 -> hour \in 10..16
      [] i = 8 -> TRUE

RuleResult(i, hour) ==
    CASE i = 1 -> "Sosa"
      [] i = 2 -> IF hour \in 10..20 THEN "Gota" ELSE NONE
      [] i = 3 -> IF hour \in 11..13 THEN "Emi" ELSE NONE
      [] i = 4 -> "Gota"
      [] i = 5 -> "Emi"
      [] i = 6 -> "Gota"
      [] i = 7 -> "Kayo"
      [] i = 8 -> NONE

FirstMatch(d, hour) ==
    LET i == CHOOSE k \in 1..8 :
                 /\ RuleMatches(k, d, hour)
                 /\ \A j \in 1..(k - 1) : ~RuleMatches(j, d, hour)
    IN RuleResult(i, hour)

RuleExamples ==
    { <<9, 8, "Sosa">>, <<13, 15, "Gota">>, <<13, 9, NONE>>, <<20, 12, "Emi">>,
      <<20, 9, NONE>>, <<17, 12, "Gota">>, <<1, 18, "Gota">>, <<1, 11, "Kayo">>,
      <<1, 9, NONE>>, <<3, 12, "Emi">>, <<3, 9, NONE>> }

\* sum of the rowspans of the non-hidden cells among the first n cells of column d0
RECURSIVE RowspanSum(_, _)
RowspanSum(d0, n) ==
    IF n = 0 THEN 0
    ELSE RowspanSum(d0, n - 1)
           + (IF grid[n - 1][d0].hidden THEN 0 ELSE grid[n - 1][d0].rowspan)

\* the non-hidden cell at hour-index g spans hour-index h
Covers(d0, g, h) ==
    /\ ~grid[g][d0].hidden
    /\ g <= h
    /\ h < g + grid[g][d0].rowspan

\* the hidden cells of column d0 that lie under the rowspan of a cell above them
CoveredHidden(d0) ==
    { h \in HourIdx : grid[h][d0].hidden /\ \E g \in HourIdx : g < h /\ Covers(d0, g, h) }

NonHidden(d0) == { h \in HourIdx : ~grid[h][d0].hidden }

\* hour-indices a..b of day d are a maximal run of one non-none instructor
IsMaximalRun(d, a, b) ==
    /\ a <= b
    /\ Assigned(d, a) # NONE
    /\ \A i \in a..b : Assigned(d, i) = Assigned(d, a)
    /\ (a = 0 \/ Assigned(d, a - 1) # Assigned(d, a))
    /\ (b = hoursLength - 1 \/ Assigned(d, b + 1) # Assigned(d, a))

\* the hour-index of the non-hidden cell at or above h that is nearest to h
Owner(d0, h) ==
    CHOOSE g \in 0..h :
        /\ ~grid[g][d0].hidden
        /\ \A k \in (g + 1)..h : grid[k][d0].hidden

-----------------------------------------------------------------------------
(* Properties of the rule engine, under RuleSpec *)

\* C1: for every day in 1..daysInMonth (30) and every hour of the hour list
\* (8..20), the call returns the result of the ordered first-match rule list
\* (rules 1-8), and in particular the results the specification lists.
C1_RuleOrder ==
    /\ daysInMonth = 30
    /\ {hours[i] : i \in 1..Len(hours)} = 8..20
    /\ (qpc = "returned" /\ ValidDay(qday) /\ ValidHour(qhour)) =>
         /\ ~qout.raised
         /\ qout.value = FirstMatch(qday, qhour)
         /\ \A e \in RuleExamples :
              (e[1] = qday /\ e[2] = qhour) => qout.value = e[3]

\* day 17 at 12:00: rule 4 (Gota's exception day) wins over rule 7 (Kayo)
C1_Witness ==
    qpc = "returned" /\ qday = 17 /\ qhour = 12 /\ qout.value = "Gota"

\* C6: a call with a day outside 1..daysInMonth or an hour that is not in the
\* hour list raises an error instead of returning none or an instructor.
C6_FailsLoudly ==
    (qpc = "returned" /\ ~(ValidDay(qday) /\ ValidHour(qhour))) => qout.raised

-----------------------------------------------------------------------------
(* Properties of the grid builder, under Spec *)

\* C2: in the finished grid, the column of every holiday (5, 6, 10, 25) has a
\* non-hidden cell at hour-index 0 with the holiday label and rowspan
\* hours.length (13), and every cell below it is hidden.
C2_HolidayColumn ==
    pc = "done" =>
        /\ holidays = {5, 6, 10, 25}
        /\ hoursLength = 13
        /\ \A d \in holidays :
             /\ ~grid[0][d - 1].hidden
             /\ grid[0][d - 1].instructor = HolidayLabel
             /\ grid[0][d - 1].rowspan = hoursLength
             /\ \A h \in 1..(hoursLength - 1) : grid[h][d - 1].hidden

C2_Witness ==
    /\ pc = "done"
    /\ grid[0][4].instructor = HolidayLabel
    /\ grid[0][4].rowspan = 13
    /\ grid[12][24].hidden

\* C3: in the finished grid, on every non-holiday day, every maximal run of
\* hour-indices with the same non-none instructor has exactly one non-hidden
\* cell, the one at the lowest hour-index; it carries that instructor and its
\* rowspan is the length of the run; the other cells of the run are hidden.
C3_MergeCorrect ==
    pc = "done" =>
        \A d \in Days \ holidays : \A a, b \in HourIdx :
            IsMaximalRun(d, a, b) =>
                /\ ~grid[a][d - 1].hidden
                /\ grid[a][d - 1].instructor = Assigned(d, a)
                /\ grid[a][d - 1].rowspan = b - a + 1
                /\ \A i \in (a + 1)..b : grid[i][d - 1].hidden
                /\ Cardinality({i \in a..b : ~grid[i][d - 1].hidden}) = 1

\* day 17: Gota's exception hours 10..16 and Gota's evening 17..20 are one
\* run of 11 hours; day 3: Kayo at 10 is a run of its own before Emi
C3_Witness ==
    /\ pc = "done"
    /\ IsMaximalRun(17, 2, 12)
    /\ grid[2][16].rowspan = 11
    /\ grid[2][16].instructor = "Gota"
    /\ IsMaximalRun(3, 2, 2)
    /\ grid[2][2].rowspan = 1
    /\ grid[3][2].instructor = "Emi"

\* C4: in the finished grid, in every day column, the rowspans of the
\* non-hidden cells add up to hours.length (13).
C4_RowspanSum ==
    pc = "done" =>
        /\ hoursLength = 13
        /\ \A d0 \in DayIdx : RowspanSum(d0, hoursLength) = hoursLength

\* day 9: none of the cells is a holiday cell; Sosa 2 + Kayo 7 + Gota 4
C4_Witness ==
    /\ pc = "done"
    /\ grid[0][8].rowspan = 2
    /\ grid[2][8].rowspan = 7
    /\ grid[9][8].rowspan = 4
    /\ RowspanSum(8, hoursLength) = 13
    /\ RowspanSum(4, hoursLength) = 13

\* C5: in the finished grid, on every non-holiday day, a cell at an hour-index
\* where the rule engine returns none is non-hidden with instructor none and
\* rowspan 1; no other cell's rowspan covers it; and two hours with the same
\* instructor that have a none-valued hour between them have different owners.
C5_NoMergeAcrossNone ==
    pc = "done" =>
        \A d \in Days \ holidays : \A i \in HourIdx :
            Assigned(d, i) = NONE =>
                /\ ~grid[i][d - 1].hidden
                /\ grid[i][d - 1].instructor = NONE
                /\ grid[i][d - 1].rowspan = 1
                /\ \A g \in HourIdx : (g # i) => ~Covers(d - 1, g, i)
                /\ \A a, b \in HourIdx :
                     (a < i /\ i < b /\ Assigned(d, a) # NONE
                        /\ Assigned(d, a) = Assigned(d, b)) =>
                       Owner(d - 1, a) # Owner(d - 1, b)

\* day 20: none at 10:00, Emi 11..13, none at 14:00
C5_Witness ==
    /\ pc = "done"
    /\ Assigned(20, 2) = NONE
    /\ grid[2][19] = EmptyCell
    /\ grid[3][19].instructor = "Emi"
    /\ grid[3][19].rowspan = 3
    /\ Assigned(20, 6) = NONE
    /\ grid[6][19] = EmptyCell

\* C7 as stated: in the finished grid, in every day column, the sum of the
\* rowspans of the non-hidden cells plus the number of hidden cells those
\* rowspans cover equals hours.length (13).
C7_SumPlusCovered ==
    pc = "done" =>
        \A d0 \in DayIdx :
            RowspanSum(d0, hoursLength) + Cardinality(CoveredHidden(d0)) = hoursLength

\* C7 amended: in the finished grid, in every day column, the number of
\* non-hidden cells plus the number of hidden cells their rowspans cover equals
\* hours.length (13), and every hidden cell is covered.
C7_CellsPlusCovered ==
    pc = "done" =>
        \A d0 \in DayIdx :
            /\ Cardinality(NonHidden(d0)) + Cardinality(CoveredHidden(d0)) = hoursLength
            /\ hoursLength = 13
            /\ CoveredHidden(d0) = HourIdx \ NonHidden(d0)
            /\ \A g \in NonHidden(d0) :
                 Cardinality({h \in CoveredHidden(d0) : Covers(d0, g, h)})
                    = grid[g][d0].rowspan - 1

\* day 1: 2 none + Kayo + Gota = 4 non-hidden cells covering 6 + 3 hidden ones
C7_Witness ==
    /\ pc = "done"
    /\ Cardinality(NonHidden(0)) = 4
    /\ Cardinality(CoveredHidden(0)) = 9
    /\ Cardinality(NonHidden(4)) = 1
    /\ Cardinality(CoveredHidden(4)) = 12

\* the cell at [h][d0] has been given an instructor or a rowspan above 1
Touched(g, h, d0) == g[h][d0].rowspan > 1 \/ g[h][d0].instructor # NONE

C8_HiddenState ==
    \A h \in DOMAIN grid : \A d0 \in DOMAIN grid[h] :
        grid[h][d0].hidden =>
            grid[h][d0].rowspan = 1 /\ grid[h][d0].instructor = NONE

C8_HiddenStep ==
    \A h \in DOMAIN grid : \A d0 \in DOMAIN grid[h] :
        /\ Touched(grid, h, d0) => (Touched(grid', h, d0) /\ ~grid'[h][d0].hidden)
        /\ grid[h][d0].hidden => grid'[h][d0] = grid[h][d0]

\* C8: in every state of the build and in the finished grid, a hidden cell has
\* rowspan 1 and instructor none; a cell that has an instructor or a rowspan
\* above 1 is never marked hidden afterwards, and a hidden cell is never
\* assigned an instructor or a rowspan.
C8_HiddenUntouched == [](C8_HiddenState) /\ [][C8_HiddenStep]_vars

\* the builder is about to skip a hidden cell under a merged owner
C8_Witness ==
    /\ pc = "hour"
    /\ h_idx \in 1..(hoursLength - 1)
    /\ grid[h_idx][day - 1].hidden
    /\ \E g \in 0..(h_idx - 1) :
          Covers(day - 1, g, h_idx) /\ grid[g][day - 1].instructor # NONE

\* C9: while the grid is built getInstructor is never called with a holiday
\* day; getInstructor itself ignores the holiday set, so for a holiday day it
\* returns the ordinary rule result (getInstructor(5, 12) = Kayo,
\* getInstructor(5, 18) = Gota); the finished grid shows only the holiday
\* label in a holiday's column.
C9_HolidayOnlyInBuilder ==
    /\ \A c \in calls : c[1] \notin holidays
    /\ \A d \in holidays : \A i \in HourIdx :
          Assigned(d, i) = FirstMatch(d, hourAt(i))
    /\ getInstructor(5, 12) = "Kayo"
    /\ getInstructor(5, 18) = "Gota"
    /\ pc = "done" =>
          \A d \in holidays :
              { td.text : td \in renderColumn(d - 1) } = {HolidayLabel}

\* the days around the holiday 5 were looked up, day 5 was not
C9_Witness ==
    /\ pc = "done"
    /\ <<4, 12>> \in calls
    /\ <<7, 12>> \in calls
    /\ ~\E hour \in 8..20 : <<5, hour>> \in calls
    /\ renderColumn(4) = {[row |-> 0, rowSpan |-> 13, text |-> HolidayLabel]}

\* C10: in the finished grid, in every day column, every hour-index lies in
\* the span of exactly one rendered cell, no rendered cell's span runs past
\* the last hour-index, and the cells strictly inside a span are exactly the
\* hidden cells.
C10_ExactCover ==
    pc = "done" =>
        \A d0 \in DayIdx :
            /\ \A h \in HourIdx :
                 Cardinality({td \in renderColumn(d0) :
                                 td.row <= h /\ h < td.row + td.rowSpan}) = 1
            /\ \A td \in renderColumn(d0) :
                 td.rowSpan >= 1 /\ td.row + td.rowSpan <= hoursLength
            /\ \A h \in HourIdx :
                 grid[h][d0].hidden <=>
                    \E td \in renderColumn(d0) :
                        td.row < h /\ h < td.row + td.rowSpan

\* day 9 renders three cells (Sosa, Kayo, Gota); day 20 renders eleven
C10_Witness ==
    /\ pc = "done"
    /\ renderColumn(8) = { [row |-> 0, rowSpan |-> 2, text |-> "Sosa"],
                           [row |-> 2, rowSpan |-> 7, text |-> "Kayo"],
                           [row |-> 9, rowSpan |-> 4, text |-> "Gota"] }
    /\ Cardinality(renderColumn(19)) = 11

====
